---- MODULE Spec2Model ----
(***************************************************************************)
(* A model of the replay memories and of the update control flow of the    *)
(* agents of tensorforce:                                                  *)
(*   Replay             core/memories/replay.py                            *)
(*   BatchAgent         agents/batch_agent.py                              *)
(*   MemoryAgent        agents/memory_agent.py                             *)
(*   DQFDAgent          agents/dqfd_agent.py                               *)
(*   PrioritizedReplay  core/memories/prioritized_replay.py                *)
(* Each component has its own specification (SpecReplay, SpecBatchAgent,   *)
(* ...); the variables of the other components stay at their idle value.   *)
(***************************************************************************)
EXTENDS Integers, Sequences, FiniteSets, TLC

\* ------------------------------------------------------------- bounds
\* Largest capacity of a Replay memory.
MaxCapacity == 3
\* Number of add_observation calls explored on a Replay memory.
MaxAdds == 6
\* Largest batch_size asked of Replay.get_batch.
MaxGetBatch == 3
\* Largest number of actions of a QNAFModel's actions_spec.
MaxActions == 2
\* Largest tf_summary_interval of a Model.
MaxSummaryInterval == 2
\* Number of get_action calls explored on a Model.
MaxModelTimestep == 5
\* Number of summaries a Model is followed to.
MaxSummaries == 4
\* Largest batch_size of a BatchAgent.
MaxBatchSize == 3
\* Number of observe calls explored on a BatchAgent.
MaxObserve == 7
\* MemoryAgent: largest update_steps and target_update_steps, largest
\* min_replay_size, largest update_repeat, number of add_observation calls.
MaxUpdateSteps == 3
MaxMinReplaySize == 3
MaxUpdateRepeat == 2
MaxSteps == 6
\* DQFDAgent: largest first_update, update_frequency and repeat_update, and
\* the number of timesteps explored.
MaxFirstUpdate == 3
MaxUpdateFrequency == 3
MaxRepeatUpdate == 2
MaxTimestep == 7
\* PrioritizedReplay: largest capacity and buffer_size, number of experiences
\* handed to tf_store, timesteps per tf_store call, largest n of
\* tf_retrieve_timesteps, iterations of the sampling loop followed before it
\* is known not to end.
MaxPrCapacity == 2
MaxBufferSize == 2
MaxStored == 2
MaxInstances == 2
MaxRetrieve == 2
LoopFuel == 2
\* The losses a model update reports for a timestep: none, or some.
Losses == {0, 2}

VARIABLES
    \* ---- Replay (replay.py:34-43)
    capacity, states, actions, rewards, terminals, internals, size, index,
    random_sampling,
    added,              \* history: the observations passed to add_observation
    rp_last,            \* the running or last Replay call: its name, its
                        \* batch_size, the indices sampled and the batch returned
    \* ---- BatchAgent (batch_agent.py:46-67)
    batch_size, keep_last_timestep,
    batch_states, batch_internals, batch_actions, batch_terminal, batch_reward,
    batch_count,
    observe_calls,      \* history: number of BatchAgent.observe calls
    updates,            \* history: model.update calls, <<observe call, batch>>
    \* ---- MemoryAgent (memory_agent.py:50-60)
    step_count, update_repeat, ma_batch_size, update_steps, use_target_network,
    target_update_steps, min_replay_size,
    ma_trace,           \* history: the calls made by the last add_observation
    \* ---- DQFDAgent (dqfd_agent.py:212-224)
    timestep, first_update, update_frequency, repeat_update,
    acted,              \* an act has been run and its observe is pending
    dqfd_trace,         \* history: the calls made by the last observe
    \* ---- PrioritizedReplay (prioritized_replay.py:51-53, 74-213)
    pr_capacity, buffer_size, prioritization_weight,
    states_memory, internals_memory, actions_memory, terminal_memory,
    reward_memory, memory_index, priorities,
    buffer_index, states_buffer, internals_buffer, actions_buffer,
    terminal_buffer, reward_buffer,
    batch_indices, last_batch_buffer_elems,
    stored,             \* history: number of experiences handed to tf_store
    pr_last,            \* history: the last operation, its input and outcome
    pr_batch,           \* the batch returned by the last tf_retrieve_timesteps,
                        \* until a tf_update_batch has answered it
    loss_pending,       \* pr_batch has not been answered by a tf_update_batch
    \* ---- QNAFModel (q_naf_model.py:31-83)
    actions_spec,
    naf_status,         \* "new", "TensorForceError" or "constructed"
    qmodel_initialized, \* the parent constructor QModel.__init__ has run
    \* ---- Model (model.py:68-190)
    summaries_enabled, distributed, summary_interval, last_summary_step,
    model_timestep,     \* Model.timestep
    session, supervisor, summary_writer,    \* TRUE: set, FALSE: None
    summary_log,        \* history: the summaries written, <<kind, timestep>>
    model_updated,      \* history: an update has been called
    model_last          \* history: the last call and what it did

replayVars == <<capacity, states, actions, rewards, terminals, internals, size,
                index, random_sampling, added, rp_last>>
batchVars == <<batch_size, keep_last_timestep, batch_states, batch_internals,
               batch_actions, batch_terminal, batch_reward, batch_count,
               observe_calls, updates>>
memAgentVars == <<step_count, update_repeat, ma_batch_size, update_steps,
                  use_target_network, target_update_steps, min_replay_size, ma_trace>>
dqfdVars == <<timestep, first_update, update_frequency, repeat_update, acted,
              dqfd_trace>>
prioConfig == <<pr_capacity, buffer_size, prioritization_weight>>
prioMemory == <<states_memory, internals_memory, actions_memory, terminal_memory,
                reward_memory, memory_index, priorities>>
prioBuffer == <<buffer_index, states_buffer, internals_buffer, actions_buffer,
                terminal_buffer, reward_buffer>>
prioVars == <<prioConfig, prioMemory, prioBuffer, batch_indices,
              last_batch_buffer_elems, stored, pr_last, pr_batch, loss_pending>>
nafVars == <<actions_spec, naf_status, qmodel_initialized>>
modelVars == <<summaries_enabled, distributed, summary_interval, last_summary_step,
               model_timestep, session, supervisor, summary_writer, summary_log,
               model_updated, model_last>>
vars == <<replayVars, batchVars, memAgentVars, dqfdVars, prioVars, nafVars, modelVars>>

\* ------------------------------------------------------------ helpers
Min(a, b) == IF a < b THEN a ELSE b

\* s[-1] of a non-empty Python list.
Last(s) == s[Len(s)]

\* The k-th observation handed to the program: every field carries k, tagged
\* with the field, so that a field stored in the wrong place is seen.
StateOf(k) == <<"s", k>>
ActionOf(k) == <<"a", k>>
InternalOf(k) == <<"i", k>>
RewardOf(k) == k

\* =====================================================================
\* Replay
\* =====================================================================
Slots == 0 .. (capacity - 1)

\* The batch of a call that returned none.
NoBatch == [states |-> <<>>, actions |-> <<>>, rewards |-> <<>>, terminals |-> <<>>,
            internals |-> <<>>]

\* A Replay call: "add", "sampling" (get_batch is in its loop and holds the
\* indices it drew last), "batch" (get_batch returned), "error" (get_batch
\* raised).
ReplayCall(op, bsize, indices, batch) ==
    [op |-> op, batch_size |-> bsize, indices |-> indices, batch |-> batch]

\* Replay.__init__: np.zeros arrays of length capacity, size = index = 0.
\* internals is None until the first add_observation; the empty sequence
\* stands for None.
InitReplay ==
    /\ capacity \in 1 .. MaxCapacity
    /\ states = [i \in Slots |-> StateOf(0)]
    /\ actions = [i \in Slots |-> ActionOf(0)]
    /\ rewards = [i \in Slots |-> 0]
    /\ terminals = [i \in Slots |-> FALSE]
    /\ internals = <<>>
    /\ size = 0
    /\ index = 0
    /\ random_sampling \in BOOLEAN
    /\ added = <<>>
    /\ rp_last = ReplayCall("init", 0, <<>>, NoBatch)

IdleReplay ==
    /\ capacity = 1
    /\ states = [i \in {0} |-> StateOf(0)]
    /\ actions = [i \in {0} |-> ActionOf(0)]
    /\ rewards = [i \in {0} |-> 0]
    /\ terminals = [i \in {0} |-> FALSE]
    /\ internals = <<>>
    /\ size = 0
    /\ index = 0
    /\ random_sampling = FALSE
    /\ added = <<>>
    /\ rp_last = ReplayCall("init", 0, <<>>, NoBatch)

\* replay.py:58-59
NextSize(sz, cap) == IF sz < cap THEN sz + 1 ELSE sz

\* Mutant of NextIndex: the write index stops at the last slot.
NextIndexNoWrap(ix, cap) == IF ix + 1 < cap THEN ix + 1 ELSE ix
\* replay.py:60
NextIndex(ix, cap) == (ix + 1) % cap

\* Mutant of WriteSlot: the slot after the write index is written.
WriteSlotNext(ix) == (ix + 1) % capacity
\* replay.py:49-56: the slot all fields of one observation are written to.
WriteSlot(ix) == ix

\* Replay.add_observation(state, action, reward, terminal, internal)
AddObservation(state, action, reward, terminal, internal) ==
    /\ internals' =
         IF internals = <<>>
         THEN <<[i \in Slots |-> IF i = WriteSlot(index) THEN internal ELSE InternalOf(0)]>>
         ELSE <<[internals[1] EXCEPT ![WriteSlot(index)] = internal]>>
    /\ states' = [states EXCEPT ![WriteSlot(index)] = state]
    /\ actions' = [actions EXCEPT ![WriteSlot(index)] = action]
    /\ rewards' = [rewards EXCEPT ![WriteSlot(index)] = reward]
    /\ terminals' = [terminals EXCEPT ![WriteSlot(index)] = terminal]
    /\ size' = NextSize(size, capacity)
    /\ index' = NextIndex(index, capacity)
    /\ added' = Append(added, [state |-> state, action |-> action, reward |-> reward,
                               terminal |-> terminal, internal |-> internal])
    /\ UNCHANGED <<capacity, random_sampling>>

ReplayAdd ==
    /\ rp_last.op # "sampling"
    /\ rp_last' = ReplayCall("add", 0, <<>>, NoBatch)
    /\ Len(added) < MaxAdds
    /\ \E terminal \in BOOLEAN :
         LET k == Len(added) + 1
         IN AddObservation(StateOf(k), ActionOf(k), RewardOf(k), terminal, InternalOf(k))
    /\ UNCHANGED <<batchVars, memAgentVars, dqfdVars, prioVars, nafVars, modelVars>>

\* list(xrange(a, b))
XRange(a, b) == [k \in 1 .. (IF b > a THEN b - a ELSE 0) |-> a + k - 1]

\* array.take(indices)
Take(var, indices) == [k \in 1 .. Len(indices) |-> var[indices[k]]]

\* Mutant of SampleSequentialIndices: the window ends one slot after the
\* write index.
SampleSequentialIndicesPastIndex(bsize, r) ==
    LET end == (index + 1 - r) % capacity
        start == (end - bsize) % capacity
    IN IF start < end THEN XRange(start, end)
       ELSE XRange(start, capacity) \o XRange(0, end)

\* Replay._sample_sequential_indices(batch_size); r is the value of
\* randrange(self.size - batch_size + 1).
SampleSequentialIndices(bsize, r) ==
    LET end == (index - r) % capacity
        start == (end - bsize) % capacity
    IN IF start < end THEN XRange(start, end)
       ELSE XRange(start, capacity) \o XRange(0, end)

\* randrange(n) raises ValueError unless n > 0; otherwise it is one of these.
RandRange(n) == 0 .. (n - 1)

\* Mutant of AnyIntermediateTerminal: the loop never samples again.
NeverResample(indices) == FALSE

\* replay.py:80: np.any(self.terminals.take(indices)[:-1])
AnyIntermediateTerminal(indices) ==
    \E k \in 1 .. (Len(indices) - 1) : Take(terminals, indices)[k]

\* replay.py:83-89: the dict get_batch returns.
BatchOf(indices) ==
    [states |-> Take(states, indices),
     actions |-> Take(actions, indices),
     rewards |-> Take(rewards, indices),
     terminals |-> Take(terminals, indices),
     internals |-> [n \in 1 .. Len(internals) |-> Take(internals[n], indices)]]

\* Replay.get_batch(batch_size), up to its first sample. With
\* random_sampling it returns batch_size indices below size (np.random.randint
\* raises ValueError when size is 0); otherwise it draws a first window
\* (randrange raises ValueError when batch_size > size) and enters the loop.
GetBatch(bsize) ==
    /\ IF random_sampling
       THEN IF size = 0
            THEN rp_last' = ReplayCall("error", bsize, <<>>, NoBatch)
            ELSE \E indices \in [1 .. bsize -> 0 .. (size - 1)] :
                    rp_last' = ReplayCall("batch", bsize, indices, BatchOf(indices))
       ELSE IF size - bsize + 1 <= 0
            THEN rp_last' = ReplayCall("error", bsize, <<>>, NoBatch)
            ELSE \E r \in RandRange(size - bsize + 1) :
                    rp_last' = ReplayCall("sampling", bsize,
                                          SampleSequentialIndices(bsize, r), NoBatch)
    /\ UNCHANGED <<capacity, states, actions, rewards, terminals, internals, size,
                   index, random_sampling, added>>

\* get_batch leaves the memory as it is: a call made after another get_batch
\* meets the memory an earlier call met, so calls start after the
\* construction or an add_observation.
ReplayGetBatch ==
    /\ rp_last.op \in {"init", "add"}
    /\ \E bsize \in 1 .. MaxGetBatch : GetBatch(bsize)
    /\ UNCHANGED <<batchVars, memAgentVars, dqfdVars, prioVars, nafVars, modelVars>>

\* replay.py:80-81: one iteration of the loop: the window holds a terminal
\* before its last position and another window is drawn.
ReplayResample ==
    /\ rp_last.op = "sampling"
    /\ AnyIntermediateTerminal(rp_last.indices)
    /\ \E r \in RandRange(size - rp_last.batch_size + 1) :
          rp_last' = ReplayCall("sampling", rp_last.batch_size,
                                SampleSequentialIndices(rp_last.batch_size, r), NoBatch)
    /\ UNCHANGED <<capacity, states, actions, rewards, terminals, internals, size,
                   index, random_sampling, added>>
    /\ UNCHANGED <<batchVars, memAgentVars, dqfdVars, prioVars, nafVars, modelVars>>

\* replay.py:80, 83-89: the loop ends and the batch is returned.
ReplayReturn ==
    /\ rp_last.op = "sampling"
    /\ ~AnyIntermediateTerminal(rp_last.indices)
    /\ rp_last' = ReplayCall("batch", rp_last.batch_size, rp_last.indices,
                             BatchOf(rp_last.indices))
    /\ UNCHANGED <<capacity, states, actions, rewards, terminals, internals, size,
                   index, random_sampling, added>>
    /\ UNCHANGED <<batchVars, memAgentVars, dqfdVars, prioVars, nafVars, modelVars>>

NextReplay == ReplayAdd \/ ReplayGetBatch \/ ReplayResample \/ ReplayReturn

\* =====================================================================
\* BatchAgent
\* =====================================================================
\* Mutant of ResetBatch: the full reset is always taken.
ResetBatchAlwaysFull(count, keep, bs, bi, ba, bt, br) ==
    [states |-> <<>>, internals |-> <<>>, actions |-> <<>>,
     terminal |-> <<>>, reward |-> <<>>, count |-> 0]
\* BatchAgent.reset_batch, as a function of the batch before the reset.
\* count = -1 stands for batch_count = None (the call from __init__).
ResetBatch(count, keep, bs, bi, ba, bt, br) ==
    IF count = -1 \/ ~keep
    THEN [states |-> <<>>, internals |-> <<>>, actions |-> <<>>,
          terminal |-> <<>>, reward |-> <<>>, count |-> 0]
    ELSE [states |-> <<Last(bs)>>, internals |-> <<Last(bi)>>,
          actions |-> <<Last(ba)>>, terminal |-> <<Last(bt)>>,
          reward |-> <<Last(br)>>, count |-> 1]

\* BatchAgent.__init__: batch_size > 0 asserted, the fields set to None and
\* reset_batch called.
InitBatchAgent ==
    /\ batch_size \in 1 .. MaxBatchSize
    /\ keep_last_timestep \in BOOLEAN
    /\ LET r == ResetBatch(-1, keep_last_timestep, <<>>, <<>>, <<>>, <<>>, <<>>)
       IN /\ batch_states = r.states
          /\ batch_internals = r.internals
          /\ batch_actions = r.actions
          /\ batch_terminal = r.terminal
          /\ batch_reward = r.reward
          /\ batch_count = r.count
    /\ observe_calls = 0
    /\ updates = <<>>

IdleBatchAgent ==
    /\ batch_size = 1
    /\ keep_last_timestep = FALSE
    /\ batch_states = <<>>
    /\ batch_internals = <<>>
    /\ batch_actions = <<>>
    /\ batch_terminal = <<>>
    /\ batch_reward = <<>>
    /\ batch_count = 0
    /\ observe_calls = 0
    /\ updates = <<>>

\* batch_agent.py:95
BatchFull(count, bsize) == count = bsize

\* BatchAgent.observe(terminal, reward), the current state, internal and
\* action being those of the preceding act.
Observe(state, internal, action, terminal, reward) ==
    LET bs == Append(batch_states, state)
        bi == Append(batch_internals, internal)
        ba == Append(batch_actions, action)
        bt == Append(batch_terminal, terminal)
        br == Append(batch_reward, reward)
        count == batch_count + 1
        r == ResetBatch(count, keep_last_timestep, bs, bi, ba, bt, br)
    IN /\ observe_calls' = observe_calls + 1
       /\ IF BatchFull(count, batch_size)
          THEN /\ updates' = Append(updates,
                     [call |-> observe_calls + 1,
                      states |-> bs, internals |-> bi, actions |-> ba,
                      terminal |-> bt, reward |-> br])
               /\ batch_states' = r.states
               /\ batch_internals' = r.internals
               /\ batch_actions' = r.actions
               /\ batch_terminal' = r.terminal
               /\ batch_reward' = r.reward
               /\ batch_count' = r.count
          ELSE /\ updates' = updates
               /\ batch_states' = bs
               /\ batch_internals' = bi
               /\ batch_actions' = ba
               /\ batch_terminal' = bt
               /\ batch_reward' = br
               /\ batch_count' = count
       /\ UNCHANGED <<batch_size, keep_last_timestep>>

BatchObserve ==
    /\ observe_calls < MaxObserve
    /\ \E terminal \in BOOLEAN :
         LET k == observe_calls + 1
         IN Observe(StateOf(k), InternalOf(k), ActionOf(k), terminal, RewardOf(k))
    /\ UNCHANGED <<replayVars, memAgentVars, dqfdVars, prioVars, nafVars, modelVars>>

NextBatchAgent == BatchObserve

\* =====================================================================
\* MemoryAgent
\* =====================================================================
\* One call made by a handler, with its argument (0 when it has none).
Call(op, arg) == [op |-> op, arg |-> arg]

\* MemoryAgent.__init__. update_steps is int(round(1 / update_rate)) and
\* target_update_steps int(round(1 / target_network_update_rate)), for rates
\* in (0, 1]; target_update_steps is only set when use_target_network is
\* (0 stands for the missing attribute).
InitMemoryAgent ==
    /\ step_count = 0
    /\ update_repeat \in 1 .. MaxUpdateRepeat
    /\ ma_batch_size \in 1 .. 2
    /\ update_steps \in 1 .. MaxUpdateSteps
    /\ use_target_network \in BOOLEAN
    /\ target_update_steps \in (IF use_target_network THEN 1 .. MaxUpdateSteps ELSE {0})
    /\ min_replay_size \in 0 .. MaxMinReplaySize
    /\ ma_trace = <<>>

IdleMemoryAgent ==
    /\ step_count = 0
    /\ update_repeat = 1
    /\ ma_batch_size = 1
    /\ update_steps = 1
    /\ use_target_network = FALSE
    /\ target_update_steps = 0
    /\ min_replay_size = 0
    /\ ma_trace = <<>>

\* Mutant of UpdateDue: min_replay_size is not looked at.
UpdateDueNoMin(step, minsize, usteps) == step % usteps = 0
\* memory_agent.py:106
UpdateDue(step, minsize, usteps) == step >= minsize /\ step % usteps = 0

\* Mutant of TargetDue: min_replay_size is not looked at.
TargetDueNoMin(step, minsize, use, tsteps) == use /\ step % tsteps = 0
\* memory_agent.py:111-112 (`and` evaluates left to right and stops early, so
\* target_update_steps is read only when use_target_network holds)
TargetDue(step, minsize, use, tsteps) ==
    step >= minsize /\ use /\ step % tsteps = 0

\* memory_agent.py:107-109: update_repeat times, sample a batch and update.
RECURSIVE UpdateLoop(_, _)
UpdateLoop(repeat, bsize) ==
    IF repeat = 0 THEN <<>>
    ELSE <<Call("sample_batch", bsize), Call("update", 0)>> \o UpdateLoop(repeat - 1, bsize)

\* MemoryAgent.add_observation(state, action, reward, terminal)
MemAddObservation ==
    LET step == step_count + 1
    IN /\ step_count' = step
       /\ ma_trace' =
            <<Call("add_experience", 0)>>
            \o (IF UpdateDue(step, min_replay_size, update_steps)
                THEN UpdateLoop(update_repeat, ma_batch_size) ELSE <<>>)
            \o (IF TargetDue(step, min_replay_size, use_target_network, target_update_steps)
                THEN <<Call("update_target_network", 0)>> ELSE <<>>)
       /\ UNCHANGED <<update_repeat, ma_batch_size, update_steps, use_target_network,
                      target_update_steps, min_replay_size>>

MemAgentAdd ==
    /\ step_count < MaxSteps
    /\ MemAddObservation
    /\ UNCHANGED <<replayVars, batchVars, dqfdVars, prioVars, nafVars, modelVars>>

NextMemoryAgent == MemAgentAdd

\* =====================================================================
\* DQFDAgent
\* =====================================================================
\* DQFDAgent.__init__ hands first_update, update_frequency and repeat_update
\* to its superclass; timestep starts at 0.
InitDQFD ==
    /\ timestep = 0
    /\ first_update \in 1 .. MaxFirstUpdate
    /\ update_frequency \in 1 .. MaxUpdateFrequency
    /\ repeat_update \in 1 .. MaxRepeatUpdate
    /\ acted = FALSE
    /\ dqfd_trace = <<>>

IdleDQFD ==
    /\ timestep = 0
    /\ first_update = 1
    /\ update_frequency = 1
    /\ repeat_update = 1
    /\ acted = FALSE
    /\ dqfd_trace = <<>>

\* Agent.act: one more timestep. Every observe follows an act.
DQFDAct ==
    /\ ~acted
    /\ timestep < MaxTimestep
    /\ timestep' = timestep + 1
    /\ acted' = TRUE
    /\ UNCHANGED <<first_update, update_frequency, repeat_update, dqfd_trace>>
    /\ UNCHANGED <<replayVars, batchVars, memAgentVars, prioVars, nafVars, modelVars>>

\* dqfd_agent.py:266
DemoUpdateDue(t, first, freq) == t >= first /\ t % freq = 0

\* dqfd_agent.py:267-275: repeat_update times, sample the demo memory and run
\* a demonstration update.
RECURSIVE DemoLoop(_)
DemoLoop(repeat) ==
    IF repeat = 0 THEN <<>>
    ELSE <<Call("demo_get_batch", 0), Call("demonstration_update", 0)>> \o DemoLoop(repeat - 1)

\* DQFDAgent.observe(reward, terminal)
DQFDObserve ==
    /\ acted
    /\ acted' = FALSE
    /\ dqfd_trace' =
         <<Call("super_observe", 0)>>
         \o (IF DemoUpdateDue(timestep, first_update, update_frequency)
             THEN DemoLoop(repeat_update) ELSE <<>>)
    /\ UNCHANGED <<timestep, first_update, update_frequency, repeat_update>>
    /\ UNCHANGED <<replayVars, batchVars, memAgentVars, prioVars, nafVars, modelVars>>

NextDQFD == DQFDAct \/ DQFDObserve

\* =====================================================================
\* PrioritizedReplay
\* =====================================================================
\* The memory is a set of TensorFlow variables; an operation is one run of
\* the graph its tf_ function builds. A variable of length dim is a function
\* on 0 .. dim - 1. The model covers include_next_states = False; the debug
\* tf.Print operations pass their input through.

\* ---- TensorFlow operations used by the graph
\* A begin or end of var[begin:end]: a negative one counts from the end, and
\* the result is clamped to the variable.
ClampIndex(i, dim) ==
    LET j == IF i < 0 THEN i + dim ELSE i
    IN IF j < 0 THEN 0 ELSE IF j > dim THEN dim ELSE j

\* Number of entries of var[begin:end].
SliceLen(begin, end, dim) ==
    LET lo == ClampIndex(begin, dim)
        hi == ClampIndex(end, dim)
    IN IF hi > lo THEN hi - lo ELSE 0

\* var[begin:end], as a sequence.
Slice(var, dim, begin, end) ==
    [j \in 1 .. SliceLen(begin, end, dim) |-> var[ClampIndex(begin, dim) + j - 1]]

\* tf.gather(params=var, indices=ix)
Gather(var, ix) == [j \in 1 .. Len(ix) |-> var[ix[j]]]

\* tf.assign(ref=var[begin:end], value=value) fails when the slice is not
\* empty and value has another length; on an empty slice it assigns nothing
\* and succeeds, whatever value holds.
SliceAssignFails(dim, begin, end, value) ==
    SliceLen(begin, end, dim) > 0 /\ SliceLen(begin, end, dim) # Len(value)

\* The variable after a tf.assign(ref=var[begin:end], value=value) that
\* does not fail.
SliceAssign(var, dim, begin, end, value) ==
    IF SliceLen(begin, end, dim) = 0 THEN var
    ELSE [i \in 0 .. dim - 1 |->
            IF /\ i >= ClampIndex(begin, dim)
               /\ i < ClampIndex(begin, dim) + SliceLen(begin, end, dim)
            THEN value[i - ClampIndex(begin, dim) + 1]
            ELSE var[i]]

\* The values a variable may hold after a run: when the run fails, an
\* assignment that is itself valid may or may not have been executed before
\* the failure stopped the run.
AssignOutcomes(var, dim, begin, end, value, runFails) ==
    IF ~runFails THEN {SliceAssign(var, dim, begin, end, value)}
    ELSE IF SliceAssignFails(dim, begin, end, value) THEN {var}
    ELSE {var, SliceAssign(var, dim, begin, end, value)}

\* The field `f` of every experience of a sequence.
Field(exps, f) == [j \in 1 .. Len(exps) |-> exps[j][f]]

\* The k-th experience handed to tf_store, with its terminal flag.
Experience(k, terminal) ==
    [state |-> StateOf(k), internal |-> InternalOf(k), action |-> ActionOf(k),
     terminal |-> terminal, reward |-> RewardOf(k)]

EmptyBatch ==
    [states |-> <<>>, internals |-> <<>>, actions |-> <<>>, terminal |-> <<>>,
     reward |-> <<>>]

\* What a memory operation did: its name, its argument (the n of a
\* retrieve, the number of timesteps of a store or of losses of an update),
\* the experiences or losses it was given, and how the run ended ("ok", "error", or "diverged" for a run that
\* never returns). The input of a retrieve is the values drawn by
\* tf.random_uniform and the indices the sampling loop made of them.
Outcome(op, arg, input, status) ==
    [op |-> op, arg |-> arg, input |-> input, status |-> status]

\* PrioritizedReplay.__init__ and tf_initialize. Variables without an
\* initializer start at 0 (integer) or at random values (float): a slot that
\* was never written holds the experience numbered 0, and its priority is a
\* random value of either sign (-1 or 1). terminal_memory is true at capacity - 1 only, terminal_buffer
\* (capacity entries) at buffer_size - 1 only.
InitPrioritized ==
    /\ pr_capacity \in 1 .. MaxPrCapacity
    /\ buffer_size \in 1 .. MaxBufferSize
    /\ prioritization_weight = 2
    /\ states_memory = [i \in 0 .. pr_capacity - 1 |-> StateOf(0)]
    /\ internals_memory = [i \in 0 .. pr_capacity - 1 |-> InternalOf(0)]
    /\ actions_memory = [i \in 0 .. pr_capacity - 1 |-> ActionOf(0)]
    /\ terminal_memory = [i \in 0 .. pr_capacity - 1 |-> i = pr_capacity - 1]
    /\ reward_memory = [i \in 0 .. pr_capacity - 1 |-> RewardOf(0)]
    /\ memory_index = 0
    /\ priorities \in [0 .. pr_capacity - 1 -> {-1, 1}]
    /\ buffer_index = 0
    /\ states_buffer = [i \in 0 .. buffer_size - 1 |-> StateOf(0)]
    /\ internals_buffer = [i \in 0 .. pr_capacity - 1 |-> InternalOf(0)]
    /\ actions_buffer = [i \in 0 .. buffer_size - 1 |-> ActionOf(0)]
    /\ terminal_buffer = [i \in 0 .. pr_capacity - 1 |-> i = buffer_size - 1]
    /\ reward_buffer = [i \in 0 .. buffer_size - 1 |-> RewardOf(0)]
    /\ batch_indices = [i \in 0 .. pr_capacity - 1 |-> 0]
    /\ last_batch_buffer_elems = 0
    /\ stored = 0
    /\ pr_last = Outcome("init", 0, <<>>, "ok")
    /\ pr_batch = EmptyBatch
    /\ loss_pending = FALSE

IdlePrioritized ==
    /\ pr_capacity = 1
    /\ buffer_size = 1
    /\ prioritization_weight = 1
    /\ states_memory = [i \in {0} |-> StateOf(0)]
    /\ internals_memory = [i \in {0} |-> InternalOf(0)]
    /\ actions_memory = [i \in {0} |-> ActionOf(0)]
    /\ terminal_memory = [i \in {0} |-> TRUE]
    /\ reward_memory = [i \in {0} |-> RewardOf(0)]
    /\ memory_index = 0
    /\ priorities = [i \in {0} |-> 0]
    /\ buffer_index = 0
    /\ states_buffer = [i \in {0} |-> StateOf(0)]
    /\ internals_buffer = [i \in {0} |-> InternalOf(0)]
    /\ actions_buffer = [i \in {0} |-> ActionOf(0)]
    /\ terminal_buffer = [i \in {0} |-> TRUE]
    /\ reward_buffer = [i \in {0} |-> RewardOf(0)]
    /\ batch_indices = [i \in {0} |-> 0]
    /\ last_batch_buffer_elems = 0
    /\ stored = 0
    /\ pr_last = Outcome("init", 0, <<>>, "ok")
    /\ pr_batch = EmptyBatch
    /\ loss_pending = FALSE

\* A run that never returns leaves the caller blocked, and the error of a
\* failed run is caught nowhere in the agents: either ends the use of the
\* memory.
Running == pr_last.status = "ok"

\* prioritized_replay.py:219-220: the buffer positions tf_store writes.
StoreStart == buffer_index
StoreEnd(num_instances) == buffer_index + num_instances

\* PrioritizedReplay.tf_store(states, internals, actions, terminal, reward),
\* exps being the timesteps of the call.
TfStore(exps) ==
    LET num_instances == Len(exps)
        start_index == StoreStart
        end_index == StoreEnd(num_instances)
        fails ==
            \/ SliceAssignFails(buffer_size, start_index, end_index, Field(exps, "state"))
            \/ SliceAssignFails(pr_capacity, start_index, end_index, Field(exps, "internal"))
            \/ SliceAssignFails(buffer_size, start_index, end_index, Field(exps, "action"))
            \/ SliceAssignFails(pr_capacity, start_index, end_index, Field(exps, "terminal"))
            \/ SliceAssignFails(buffer_size, start_index, end_index, Field(exps, "reward"))
    IN /\ states_buffer' \in AssignOutcomes(states_buffer, buffer_size,
              start_index, end_index, Field(exps, "state"), fails)
       /\ internals_buffer' \in AssignOutcomes(internals_buffer, pr_capacity,
              start_index, end_index, Field(exps, "internal"), fails)
       /\ actions_buffer' \in AssignOutcomes(actions_buffer, buffer_size,
              start_index, end_index, Field(exps, "action"), fails)
       /\ terminal_buffer' \in AssignOutcomes(terminal_buffer, pr_capacity,
              start_index, end_index, Field(exps, "terminal"), fails)
       /\ reward_buffer' \in AssignOutcomes(reward_buffer, buffer_size,
              start_index, end_index, Field(exps, "reward"), fails)
       /\ buffer_index' = IF fails THEN buffer_index ELSE buffer_index + num_instances
       /\ pr_last' = Outcome("store", num_instances, exps, IF fails THEN "error" ELSE "ok")
       /\ UNCHANGED <<prioConfig, prioMemory, batch_indices, last_batch_buffer_elems,
                      pr_batch>>

PrioStore ==
    /\ Running
    /\ \E k \in 1 .. MaxInstances :
         /\ stored + k <= MaxStored
         /\ \E flags \in [1 .. k -> BOOLEAN] :
              TfStore([j \in 1 .. k |-> Experience(stored + j, flags[j])])
         /\ stored' = stored + k
    /\ UNCHANGED loss_pending
    /\ UNCHANGED <<replayVars, batchVars, memAgentVars, dqfdVars, nafVars, modelVars>>

\* ---- floating point values of the sampling loop
\* A value is num / den; den = 0 makes it +infinity (num > 0), -infinity
\* (num < 0) or NaN (num = 0), as the division of floats does.
Float(num, den) == [num |-> num, den |-> den]
IsNaN(x) == x.den = 0 /\ x.num = 0
\* x > 0.0 and x <= 0.0; both are false of NaN.
Positive(x) == IF x.den = 0 THEN x.num > 0 ELSE x.num * x.den > 0
NotPositive(x) == IF x.den = 0 THEN x.num < 0 ELSE x.num * x.den <= 0
\* x - y
Minus(x, y) ==
    IF IsNaN(x) \/ IsNaN(y) THEN Float(0, 0)
    ELSE IF x.den = 0 /\ y.den = 0
         THEN (IF Positive(x) = Positive(y) THEN Float(0, 0) ELSE x)
    ELSE IF x.den = 0 THEN x
    ELSE IF y.den = 0 THEN Float(-y.num, 0)
    ELSE Float(x.num * y.den - y.num * x.den, x.den * y.den)

\* prioritized_replay.py:250
RECURSIVE SumUpTo(_, _)
SumUpTo(var, last) == IF last < 0 THEN 0 ELSE var[last] + SumUpTo(var, last - 1)
SumPriorities == SumUpTo(priorities, pr_capacity - 1)

\* prioritized_replay.py:254-255: the loop goes on while this holds.
Cond(sample) == \A e \in 1 .. Len(sample) : NotPositive(sample[e])

\* prioritized_replay.py:257-265, for one entry of the batch.
BodySample(loop_index, sample, e) ==
    Minus(sample[e], Float(priorities[loop_index[e]], SumPriorities))
BodyIndex(loop_index, sample, e) ==
    loop_index[e] + (IF Positive(BodySample(loop_index, sample, e)) THEN 1 ELSE 0)

\* prioritized_replay.py:267-271: tf.while_loop(cond, sampling_body, (indices,
\* sample)). The result is the final loop_index, <<-1>> when a gather of the
\* body reads outside priorities, <<-2>> when the loop does not end: an
\* iteration that leaves cond true has moved no index, so every later
\* iteration subtracts the same amounts again and cond stays true.
RECURSIVE WhileLoop(_, _, _)
WhileLoop(loop_index, sample, fuel) ==
    IF ~Cond(sample) THEN loop_index
    ELSE IF fuel = 0 THEN <<-2>>
    ELSE IF \E e \in 1 .. Len(loop_index) : loop_index[e] >= pr_capacity THEN <<-1>>
    ELSE WhileLoop([e \in 1 .. Len(loop_index) |-> BodyIndex(loop_index, sample, e)],
                   [e \in 1 .. Len(sample) |-> BodySample(loop_index, sample, e)],
                   fuel - 1)

\* prioritized_replay.py:248-272: sampling_fn; draws[e] / 2 is the e-th value
\* of tf.random_uniform, in [0, 1).
SamplingFn(num_priority_elements, draws) ==
    WhileLoop([e \in 1 .. num_priority_elements |-> 0],
              [e \in 1 .. num_priority_elements |-> Float(draws[e], 2)],
              LoopFuel)

\* prioritized_replay.py:274-278
PriorityIndices(num_priority_elements, draws) ==
    IF num_priority_elements > 0 THEN SamplingFn(num_priority_elements, draws)
    ELSE <<>>

\* prioritized_replay.py:279-280: the sampled indices whose slot is not
\* terminal.
IsNotTerminalSlot(i) == ~terminal_memory[i]
MaskTerminal(ix) == SelectSeq(ix, IsNotTerminalSlot)

\* prioritized_replay.py:311-313
BufferStart(buffer_elements) == buffer_index - buffer_elements
BufferEnd == buffer_index

\* PrioritizedReplay.tf_retrieve_indices(buffer_elements, priority_indices):
\* for every field the buffer entries, then the priority memory entries.
TfRetrieveIndices(buffer_elements, priority_indices) ==
    LET buffer_start == BufferStart(buffer_elements)
        buffer_end == BufferEnd
    IN [states |-> Slice(states_buffer, buffer_size, buffer_start, buffer_end)
                      \o Gather(states_memory, priority_indices),
        internals |-> Slice(internals_buffer, pr_capacity, buffer_start, buffer_end)
                      \o Gather(internals_memory, priority_indices),
        actions |-> Slice(actions_buffer, buffer_size, buffer_start, buffer_end)
                      \o Gather(actions_memory, priority_indices),
        terminal |-> Slice(terminal_buffer, pr_capacity, buffer_start, buffer_end)
                      \o Gather(terminal_memory, priority_indices),
        reward |-> Slice(reward_buffer, buffer_size, buffer_start, buffer_end)
                      \o Gather(reward_memory, priority_indices)]

\* prioritized_replay.py:245-246
NumBufferElems(n) == Min(buffer_index, n)
NumPriorityElements(n) == n - NumBufferElems(n)

\* PrioritizedReplay.tf_retrieve_timesteps(n). A run that fails or does not
\* end returns no batch; its assignment to last_batch_buffer_elems does not
\* depend on the sampling and may have been executed.
TfRetrieveTimesteps(n, draws) ==
    LET num_buffer_elems == NumBufferElems(n)
        num_priority_elements == NumPriorityElements(n)
        sampled == PriorityIndices(num_priority_elements, draws)
        status == IF sampled = <<-2>> THEN "diverged"
                  ELSE IF sampled = <<-1>> THEN "error"
                  ELSE IF \E e \in 1 .. Len(sampled) : sampled[e] >= pr_capacity
                       THEN "error"
                  ELSE "ok"
    IN /\ pr_last' = Outcome("retrieve", n, [draws |-> draws, sampled |-> sampled],
                             status)
       /\ IF status = "ok"
          THEN LET priority_indices == MaskTerminal(sampled)
               IN /\ last_batch_buffer_elems' = num_buffer_elems
                  /\ batch_indices' =
                       [i \in 0 .. pr_capacity - 1 |->
                          IF \E e \in 1 .. Len(priority_indices) : priority_indices[e] = i
                          THEN 1 ELSE batch_indices[i]]
                  /\ pr_batch' = TfRetrieveIndices(num_buffer_elems, priority_indices)
          ELSE /\ last_batch_buffer_elems' \in {last_batch_buffer_elems, num_buffer_elems}
               /\ batch_indices' = batch_indices
               /\ pr_batch' = EmptyBatch
       /\ UNCHANGED <<prioConfig, prioMemory, prioBuffer, stored>>

PrioRetrieve ==
    /\ Running
    /\ \E n \in 1 .. MaxRetrieve :
         \E draws \in [1 .. NumPriorityElements(n) -> {0, 1}] :
            TfRetrieveTimesteps(n, draws)
    /\ loss_pending' = (pr_last'.status = "ok")
    /\ UNCHANGED <<replayVars, batchVars, memAgentVars, dqfdVars, nafVars, modelVars>>

\* prioritized_replay.py:393-397: the indices flagged in batch_indices, in
\* increasing order.
RECURSIVE WhereFrom(_)
WhereFrom(i) ==
    IF i >= pr_capacity THEN <<>>
    ELSE (IF batch_indices[i] # 0 THEN <<i>> ELSE <<>>) \o WhereFrom(i + 1)
WhereBatchIndices == WhereFrom(0)

\* loss ** prioritization_weight
RECURSIVE Power(_, _)
Power(x, w) == IF w = 0 THEN 1 ELSE x * Power(x, w - 1)

\* prioritized_replay.py:411-412: the priority memory positions
\* tf_update_batch writes.
InsertStart == 0
InsertEnd == last_batch_buffer_elems

\* PrioritizedReplay.tf_update_batch(loss_per_instance). The internals of
\* the batch are assigned to internals_buffer (line 422); memory_index and
\* batch_indices are not assigned.
TfUpdateBatch(loss_per_instance) ==
    LET priority_indices == WhereBatchIndices
        sampled_batch == TfRetrieveIndices(last_batch_buffer_elems, priority_indices)
        start_index == InsertStart
        end_index == InsertEnd
        new_priorities == [j \in 1 .. Len(loss_per_instance) |->
                              Power(loss_per_instance[j], prioritization_weight)]
        fails ==
            \/ SliceAssignFails(pr_capacity, start_index, end_index, sampled_batch.states)
            \/ SliceAssignFails(pr_capacity, start_index, end_index, sampled_batch.internals)
            \/ SliceAssignFails(pr_capacity, start_index, end_index, sampled_batch.terminal)
            \/ SliceAssignFails(pr_capacity, start_index, end_index, sampled_batch.reward)
            \/ SliceAssignFails(pr_capacity, start_index, end_index, new_priorities)
            \/ SliceAssignFails(pr_capacity, start_index, end_index, sampled_batch.actions)
    IN /\ states_memory' \in AssignOutcomes(states_memory, pr_capacity,
              start_index, end_index, sampled_batch.states, fails)
       /\ internals_buffer' \in AssignOutcomes(internals_buffer, pr_capacity,
              start_index, end_index, sampled_batch.internals, fails)
       /\ terminal_memory' \in AssignOutcomes(terminal_memory, pr_capacity,
              start_index, end_index, sampled_batch.terminal, fails)
       /\ reward_memory' \in AssignOutcomes(reward_memory, pr_capacity,
              start_index, end_index, sampled_batch.reward, fails)
       /\ priorities' \in AssignOutcomes(priorities, pr_capacity,
              start_index, end_index, new_priorities, fails)
       /\ actions_memory' \in AssignOutcomes(actions_memory, pr_capacity,
              start_index, end_index, sampled_batch.actions, fails)
       /\ buffer_index' = IF fails THEN buffer_index
                          ELSE buffer_index - last_batch_buffer_elems
       /\ pr_last' = Outcome("update", Len(loss_per_instance), loss_per_instance,
                             IF fails THEN "error" ELSE "ok")
       /\ pr_batch' = EmptyBatch
       /\ UNCHANGED <<prioConfig, internals_memory, memory_index, states_buffer,
                      actions_buffer, terminal_buffer, reward_buffer, batch_indices,
                      last_batch_buffer_elems, stored>>

\* The model answers a batch it was given by tf_retrieve_timesteps with one
\* tf_update_batch, handing it one loss per timestep of that batch.
PrioUpdateBatch ==
    /\ Running
    /\ loss_pending
    /\ loss_pending' = FALSE
    /\ \E loss_per_instance \in [1 .. Len(pr_batch.reward) -> Losses] :
         TfUpdateBatch(loss_per_instance)
    /\ UNCHANGED <<replayVars, batchVars, memAgentVars, dqfdVars, nafVars, modelVars>>

\* =====================================================================
\* QNAFModel
\* =====================================================================
\* The dicts an action of actions_spec can be: a 'type', and optionally a
\* 'min_value' and a 'max_value'.
ActionTypes == {"float", "int", "bool"}
BoundKeys == {"min_value", "max_value"}
ActionDict(type, keys) ==
    [k \in {"type"} \cup keys |-> IF k = "type" THEN type ELSE "bound"]
ActionDicts == {ActionDict(type, keys) : type \in ActionTypes, keys \in SUBSET BoundKeys}

\* Before QNAFModel(...) is called: any actions_spec of up to MaxActions
\* actions.
InitQNAF ==
    /\ actions_spec \in UNION {[1 .. k -> ActionDicts] : k \in 0 .. MaxActions}
    /\ naf_status = "new"
    /\ qmodel_initialized = FALSE

IdleQNAF ==
    /\ actions_spec = <<>>
    /\ naf_status = "new"
    /\ qmodel_initialized = FALSE

\* Mutant of InvalidAction: an upper bound is let through.
InvalidActionNoMax(action) ==
    action["type"] # "float" \/ "min_value" \in DOMAIN action

\* q_naf_model.py:57: the test made of one action of actions_spec.values().
InvalidAction(action) ==
    \/ action["type"] # "float"
    \/ "min_value" \in DOMAIN action
    \/ "max_value" \in DOMAIN action

\* QNAFModel.__init__: raise TensorForceError (line 58), or run
\* QModel.__init__ (lines 60-83).
QNAFModelInit ==
    /\ naf_status = "new"
    /\ IF \E n \in DOMAIN actions_spec : InvalidAction(actions_spec[n])
       THEN /\ naf_status' = "TensorForceError"
            /\ qmodel_initialized' = FALSE
       ELSE /\ naf_status' = "constructed"
            /\ qmodel_initialized' = TRUE
    /\ UNCHANGED actions_spec
    /\ UNCHANGED <<replayVars, batchVars, memAgentVars, dqfdVars, prioVars, modelVars>>

NextQNAF == QNAFModelInit

\* =====================================================================
\* Model
\* =====================================================================
\* The values of Model.last_summary_step: a timestep, -float('inf')
\* (model.py:166; -inf plus an interval is -inf, and every timestep is
\* greater), or no attribute at all when summaries are disabled.
Step(n) == [kind |-> "int", value |-> n]
NegInf == [kind |-> "-inf", value |-> 0]
NoAttribute == [kind |-> "no attribute", value |-> 0]

\* What a Model call did: its name, whether it fetched tf_summaries, whether
\* a summary was written, whether it was the first update, and "ok" or the
\* exception it raised.
ModelCall(op, fetched, wrote, first, status) ==
    [op |-> op, fetched |-> fetched, wrote |-> wrote, first |-> first,
     status |-> status]

\* Model.__init__: a model that is not distributed creates its session and,
\* with summaries enabled, its FileWriter.
InitModel ==
    /\ summaries_enabled \in BOOLEAN
    /\ distributed \in BOOLEAN
    /\ summary_interval \in 0 .. MaxSummaryInterval
    /\ last_summary_step = IF summaries_enabled THEN NegInf ELSE NoAttribute
    /\ model_timestep = 0
    /\ session = ~distributed
    /\ supervisor = FALSE
    /\ summary_writer = (summaries_enabled /\ ~distributed)
    /\ summary_log = <<>>
    /\ model_updated = FALSE
    /\ model_last = ModelCall("init", FALSE, FALSE, FALSE, "ok")

IdleModel ==
    /\ summaries_enabled = FALSE
    /\ distributed = FALSE
    /\ summary_interval = 0
    /\ last_summary_step = NoAttribute
    /\ model_timestep = 0
    /\ session = TRUE
    /\ supervisor = FALSE
    /\ summary_writer = FALSE
    /\ summary_log = <<>>
    /\ model_updated = FALSE
    /\ model_last = ModelCall("init", FALSE, FALSE, FALSE, "ok")

\* Model.set_session(session, supervisor=None): asserts that no session is
\* set yet.
ModelSetSession ==
    /\ ~session
    /\ session' = TRUE
    /\ \E given \in BOOLEAN : supervisor' = given
    /\ model_last' = ModelCall("set_session", FALSE, FALSE, FALSE, "ok")
    /\ UNCHANGED <<summaries_enabled, distributed, summary_interval, last_summary_step,
                   model_timestep, summary_writer, summary_log, model_updated>>
    /\ UNCHANGED <<replayVars, batchVars, memAgentVars, dqfdVars, prioVars, nafVars>>

\* Model.get_action: timestep += 1, then session.run, which raises
\* AttributeError when the session is None.
ModelGetAction ==
    /\ model_timestep < MaxModelTimestep
    /\ model_timestep' = model_timestep + 1
    /\ model_last' = ModelCall("get_action", FALSE, FALSE, FALSE,
                              IF session THEN "ok" ELSE "AttributeError")
    /\ UNCHANGED <<summaries_enabled, distributed, summary_interval, last_summary_step,
                   session, supervisor, summary_writer, summary_log, model_updated>>
    /\ UNCHANGED <<replayVars, batchVars, memAgentVars, dqfdVars, prioVars, nafVars>>

\* Mutant of IntervalPassed: the interval is not added.
IntervalIgnored(step, last, interval) == last = NegInf \/ step > last.value

\* model.py:350: self.timestep > self.last_summary_step + self.summary_interval
IntervalPassed(step, last, interval) == last = NegInf \/ step > last.value + interval

\* Model.should_write_summaries: the right operand of the and is evaluated
\* only with summaries enabled.
ShouldWriteSummaries ==
    summaries_enabled /\ IntervalPassed(model_timestep, last_summary_step, summary_interval)

\* Model.write_summaries(summaries) adds a summary if there is a supervisor
\* or a summary writer.
WriteSummaries(kind) ==
    IF supervisor \/ summary_writer
    THEN Append(summary_log, <<kind, model_timestep>>)
    ELSE summary_log

\* Model.update(batch): last_summary_step is assigned before session.run,
\* which raises AttributeError when the session is None.
ModelUpdate ==
    LET write_summaries == ShouldWriteSummaries
    IN /\ last_summary_step' = IF write_summaries THEN Step(model_timestep)
                                ELSE last_summary_step
       /\ summary_log' = IF session /\ write_summaries THEN WriteSummaries("update")
                         ELSE summary_log
       /\ model_last' = ModelCall("update", session /\ write_summaries,
                                  summary_log' # summary_log, ~model_updated,
                                  IF session THEN "ok" ELSE "AttributeError")
       /\ model_updated' = TRUE
       /\ UNCHANGED <<summaries_enabled, distributed, summary_interval, model_timestep,
                      session, supervisor, summary_writer>>
       /\ UNCHANGED <<replayVars, batchVars, memAgentVars, dqfdVars, prioVars, nafVars>>

\* Model.write_episode_reward_summary(episode_reward)
ModelWriteEpisodeReward ==
    /\ Len(summary_log) < MaxSummaries
    /\ summary_log' = IF summaries_enabled /\ session
                      THEN WriteSummaries("episode-reward") ELSE summary_log
    /\ model_last' = ModelCall("write_episode_reward_summary",
                              summaries_enabled /\ session,
                              summary_log' # summary_log, FALSE,
                              IF summaries_enabled /\ ~session THEN "AttributeError"
                              ELSE "ok")
    /\ UNCHANGED <<summaries_enabled, distributed, summary_interval, last_summary_step,
                   model_timestep, session, supervisor, summary_writer, model_updated>>
    /\ UNCHANGED <<replayVars, batchVars, memAgentVars, dqfdVars, prioVars, nafVars>>

NextModel ==
    ModelSetSession \/ ModelGetAction \/ ModelUpdate \/ ModelWriteEpisodeReward

\* =====================================================================
\* Claims about Replay (SpecReplay)
\* =====================================================================
\* Number of add_observation calls made so far.
NumAdded == Len(added)

\* C1: on a Replay memory of capacity C >= 1 on which only add_observation
\* is called, after n calls size = min(n, C) and index = n mod C; hence
\* 0 <= size <= C and 0 <= index < C in every reachable state.
C1_SizeAndIndex ==
    /\ size = Min(NumAdded, capacity)
    /\ index = NumAdded % capacity
    /\ 0 <= size /\ size <= capacity
    /\ 0 <= index /\ index < capacity

\* The memory has wrapped around: more adds than slots, index back inside.
C1_Witness == capacity >= 2 /\ NumAdded > capacity /\ index = 1 /\ size = capacity

\* The observation held by slot i, all five fields read at the same slot.
SlotContent(i) ==
    [state |-> states[i], action |-> actions[i], reward |-> rewards[i],
     terminal |-> terminals[i], internal |-> internals[1][i]]

\* The j-th most recently added observation (j = 1 is the newest) lives in
\* slot (n - j) mod C.
C2_SlotsHoldMostRecent ==
    \A j \in 1 .. Min(NumAdded, capacity) :
        SlotContent((NumAdded - j) % capacity) = added[NumAdded - j + 1]

\* An add on a full memory overwrites the slot of the oldest stored
\* observation and no other slot.
C2_OverwriteOnlyOldest ==
    (size = capacity /\ Len(added') = Len(added) + 1) =>
        /\ SlotContent(index) = added[NumAdded - capacity + 1]
        /\ \A i \in Slots \ {index} :
             /\ states'[i] = states[i]
             /\ actions'[i] = actions[i]
             /\ rewards'[i] = rewards[i]
             /\ terminals'[i] = terminals[i]
             /\ internals'[1][i] = internals[1][i]

\* C2: after n add_observation calls the slots hold exactly the min(n, C)
\* most recently added observations, every field of one observation at the
\* same slot; an add on a full memory overwrites only the oldest stored
\* observation and leaves every other slot unchanged.
C2_MostRecentKept == []C2_SlotsHoldMostRecent /\ [][C2_OverwriteOnlyOldest]_vars

\* A full memory of at least two slots has been overwritten twice.
C2_Witness == capacity >= 2 /\ size = capacity /\ NumAdded >= capacity + 2

\* =====================================================================
\* Claims about BatchAgent (SpecBatchAgent)
\* =====================================================================
NumUpdates == Len(updates)

\* C3: BatchAgent.observe calls model.update exactly when batch_size observe
\* calls have been made since the previous update (or since construction),
\* for both values of keep_last_timestep: the k-th update happens on observe
\* call number k * batch_size.
C3_UpdateEveryBatchSize ==
    /\ NumUpdates = observe_calls \div batch_size
    /\ \A k \in 1 .. NumUpdates : updates[k].call = k * batch_size

\* The state is the one right after an update.
JustUpdated == NumUpdates >= 1 /\ Last(updates).call = observe_calls

\* Number of places of update batches where the observation of observe call j
\* appears.
Appearances(j) ==
    Cardinality({kp \in (1 .. NumUpdates) \X (1 .. MaxBatchSize + 1) :
                    /\ kp[2] <= Len(updates[kp[1]].states)
                    /\ updates[kp[1]].states[kp[2]] = StateOf(j)})

\* C4: with keep_last_timestep = True consecutive update batches overlap in
\* exactly one timestep: after an update reset_batch leaves batch_count = 1
\* and the first entry of the new batch is the last entry of the batch just
\* processed; with keep_last_timestep = False reset_batch leaves an empty
\* batch (batch_count = 0) and every observation appears in exactly one
\* update batch.
C4_KeepLastOverlap ==
    /\ (keep_last_timestep /\ JustUpdated) =>
          /\ batch_count = 1
          /\ batch_states = <<Last(Last(updates).states)>>
          /\ batch_internals = <<Last(Last(updates).internals)>>
          /\ batch_actions = <<Last(Last(updates).actions)>>
          /\ batch_terminal = <<Last(Last(updates).terminal)>>
          /\ batch_reward = <<Last(Last(updates).reward)>>
    /\ keep_last_timestep =>
          \A k \in 1 .. NumUpdates - 1 :
              /\ updates[k + 1].states[1] = Last(updates[k].states)
              /\ updates[k + 1].reward[1] = Last(updates[k].reward)
              /\ Cardinality({p \in 1 .. Len(updates[k].states) :
                     \E q \in 1 .. Len(updates[k + 1].states) :
                         updates[k + 1].states[q] = updates[k].states[p]}) = 1
    /\ (~keep_last_timestep /\ JustUpdated) =>
          /\ batch_count = 0
          /\ batch_states = <<>> /\ batch_internals = <<>> /\ batch_actions = <<>>
          /\ batch_terminal = <<>> /\ batch_reward = <<>>
    /\ ~keep_last_timestep =>
          \A j \in 1 .. observe_calls :
              Appearances(j) = IF NumUpdates >= 1 /\ j <= Last(updates).call THEN 1 ELSE 0

\* Two consecutive update batches of a keeping agent have been processed.
C4_Witness == keep_last_timestep /\ batch_size >= 2 /\ NumUpdates >= 2 /\ JustUpdated

\* =====================================================================
\* Claims about MemoryAgent (SpecMemoryAgent)
\* =====================================================================
\* Number of calls of op made by the last add_observation.
MemCalls(op) == Cardinality({i \in 1 .. Len(ma_trace) : ma_trace[i].op = op})

IsUpdatePart(c) == c.op \in {"sample_batch", "update"}

\* The last add_observation ran exactly update_repeat rounds, each a
\* sample_batch(batch_size) followed by a model update.
RanUpdateRounds ==
    LET s == SelectSeq(ma_trace, IsUpdatePart)
    IN /\ Len(s) = 2 * update_repeat
       /\ \A i \in 1 .. update_repeat :
            /\ s[2 * i - 1] = Call("sample_batch", ma_batch_size)
            /\ s[2 * i] = Call("update", 0)

\* C5: MemoryAgent.add_observation never calls model.update while
\* step_count < min_replay_size; once step_count >= min_replay_size it runs
\* model updates on exactly those calls where step_count is a multiple of
\* update_steps, and each such call performs exactly update_repeat
\* (sample_batch(batch_size), model.update) pairs.
C5_UpdateSchedule ==
    step_count >= 1 =>
        /\ step_count < min_replay_size =>
              MemCalls("update") = 0 /\ MemCalls("sample_batch") = 0
        /\ step_count >= min_replay_size =>
              IF step_count % update_steps = 0
              THEN RanUpdateRounds
              ELSE MemCalls("update") = 0 /\ MemCalls("sample_batch") = 0

\* A call past min_replay_size, not every call being an update call, that ran
\* two update rounds.
C5_Witness ==
    /\ min_replay_size >= 2 /\ update_steps >= 2 /\ update_repeat = 2
    /\ step_count >= min_replay_size
    /\ MemCalls("update") = 2

\* C6: MemoryAgent.add_observation calls model.update_target_network if and
\* only if use_target_network is true, step_count >= min_replay_size and
\* step_count is a multiple of target_update_steps; never when
\* use_target_network is false; and when model updates and a target update
\* fall in the same call, the experience is added to memory first, then all
\* model updates run, then the target network update.
C6_TargetSchedule ==
    step_count >= 1 =>
        /\ (MemCalls("update_target_network") > 0) <=>
              (/\ use_target_network
               /\ step_count >= min_replay_size
               /\ step_count % target_update_steps = 0)
        /\ ~use_target_network => MemCalls("update_target_network") = 0
        /\ MemCalls("update_target_network") <= 1
        /\ MemCalls("add_experience") = 1
        /\ ma_trace[1] = Call("add_experience", 0)
        /\ MemCalls("update_target_network") = 1 =>
              Last(ma_trace) = Call("update_target_network", 0)

\* Model updates and the target update fell in the same call.
C6_Witness ==
    /\ MemCalls("update_target_network") = 1
    /\ MemCalls("update") = 2
    /\ min_replay_size >= 1
    /\ target_update_steps >= 2

\* =====================================================================
\* Claims about DQFDAgent (SpecDQFD)
\* =====================================================================
\* The state is the one right after an observe call.
Observed == ~acted /\ timestep >= 1

DemoCalls(op) == Cardinality({i \in 1 .. Len(dqfd_trace) : dqfd_trace[i].op = op})

\* C7: in DQFDAgent.observe the first demonstration update is performed on
\* the observe call at which timestep equals first_update, and from then on
\* a demonstration update round (repeat_update demonstration updates) is
\* performed every update_frequency observe steps, always after the
\* superclass observe of the same call has run.
C7_DemoUpdateSchedule ==
    Observed =>
        /\ (DemoCalls("demonstration_update") > 0) <=>
              (/\ timestep >= first_update
               /\ (timestep - first_update) % update_frequency = 0)
        /\ DemoCalls("demonstration_update") > 0 =>
              DemoCalls("demonstration_update") = repeat_update
        /\ dqfd_trace[1] = Call("super_observe", 0)
        /\ DemoCalls("super_observe") = 1

\* =====================================================================
\* Claims about PrioritizedReplay (SpecPrioritized)
\* =====================================================================
\* The last operation was a tf_retrieve_timesteps that returned a batch.
Retrieved == pr_last.op = "retrieve" /\ pr_last.status = "ok"

\* C8: PrioritizedReplay.tf_retrieve_timesteps(n) returns a batch holding
\* exactly n timesteps in every field (states, internals, actions, terminal,
\* reward), for every n >= 1 and every memory state reached by
\* store/retrieve/update_batch in which at least n experiences have been
\* stored.
C8_RetrieveReturnsN ==
    (Retrieved /\ stored >= pr_last.arg) =>
        /\ Len(pr_batch.states) = pr_last.arg
        /\ Len(pr_batch.internals) = pr_last.arg
        /\ Len(pr_batch.actions) = pr_last.arg
        /\ Len(pr_batch.terminal) = pr_last.arg
        /\ Len(pr_batch.reward) = pr_last.arg

\* The j-th entry of a field of the batch is the buffer entry at position pos.
FromBuffer(field, buffer, j, pos) ==
    /\ j <= Len(field)
    /\ pos \in DOMAIN buffer
    /\ field[j] = buffer[pos]

\* C9: PrioritizedReplay.tf_retrieve_timesteps(n) uses the buffer first: it
\* takes min(buffer_index, n) experiences from the buffer (the most recently
\* stored ones, positions buffer_index - k .. buffer_index - 1), places them
\* first in the batch, and takes only the remaining n - min(buffer_index, n)
\* from the priority memory; when buffer_index >= n nothing is taken from
\* the priority memory.
C9_BufferFirst ==
    Retrieved =>
        LET n == pr_last.arg
            k == Min(buffer_index, n)
        IN /\ \A j \in 1 .. k :
                /\ FromBuffer(pr_batch.states, states_buffer, j, buffer_index - k + j - 1)
                /\ FromBuffer(pr_batch.internals, internals_buffer, j, buffer_index - k + j - 1)
                /\ FromBuffer(pr_batch.actions, actions_buffer, j, buffer_index - k + j - 1)
                /\ FromBuffer(pr_batch.terminal, terminal_buffer, j, buffer_index - k + j - 1)
                /\ FromBuffer(pr_batch.reward, reward_buffer, j, buffer_index - k + j - 1)
           /\ Len(pr_batch.states) <= n
           /\ Len(pr_batch.reward) <= n
           /\ buffer_index >= n =>
                /\ Len(pr_batch.states) = n
                /\ Len(pr_batch.reward) = n
                /\ last_batch_buffer_elems = n

\* The step is a tf_store that ended without an error.
StoreStep == stored' # stored /\ pr_last'.status = "ok"

\* C10: PrioritizedReplay.tf_store inserts all new experiences into the
\* buffer only: it writes the k stored timesteps at buffer positions
\* buffer_index .. buffer_index + k - 1, increases buffer_index by k, and
\* leaves the priority memory contents, priorities, memory_index,
\* batch_indices and last_batch_buffer_elems unchanged.
C10_StoreStep ==
    StoreStep =>
        LET exps == pr_last'.input
        IN /\ \A j \in 1 .. Len(exps) :
                LET pos == buffer_index + j - 1
                IN /\ pos \in DOMAIN states_buffer' /\ states_buffer'[pos] = exps[j].state
                   /\ pos \in DOMAIN internals_buffer' /\ internals_buffer'[pos] = exps[j].internal
                   /\ pos \in DOMAIN actions_buffer' /\ actions_buffer'[pos] = exps[j].action
                   /\ pos \in DOMAIN terminal_buffer' /\ terminal_buffer'[pos] = exps[j].terminal
                   /\ pos \in DOMAIN reward_buffer' /\ reward_buffer'[pos] = exps[j].reward
           /\ buffer_index' = buffer_index + Len(exps)
           /\ UNCHANGED <<prioMemory, batch_indices, last_batch_buffer_elems>>
C10_StoreIntoBufferOnly == [][C10_StoreStep]_vars

\* The index that priority-weighted sampling picks for the draw u / 2: the
\* smallest slot i whose cumulative normalised priority
\* (p_0 + ... + p_i) / sum reaches the draw.
Reaches(i, u) == 2 * SumUpTo(priorities, i) >= u * SumPriorities
WeightedIndex(u) ==
    LET reaching == {i \in 0 .. pr_capacity - 1 : Reaches(i, u)}
    IN IF reaching = {} THEN pr_capacity - 1
       ELSE CHOOSE i \in reaching : \A j \in reaching : i <= j

\* The last operation was a retrieve that sampled from the priority memory
\* while the priorities had a positive sum (a retrieve leaves the priorities
\* as they were).
SampledRetrieve ==
    /\ pr_last.op = "retrieve"
    /\ Len(pr_last.input.draws) > 0
    /\ SumPriorities > 0

\* C11: sampling from the priority memory weights indices by priority: when
\* the priorities have a positive sum, every index sampled by
\* tf_retrieve_timesteps is the smallest slot whose cumulative normalised
\* priority reaches the uniform draw it was made from.
C11_PrioritySampling ==
    SampledRetrieve =>
        /\ pr_last.status = "ok"
        /\ \A e \in 1 .. Len(pr_last.input.draws) :
              pr_last.input.sampled[e] = WeightedIndex(pr_last.input.draws[e])

\* A step of tf_update_batch that ran to its end.
UpdateStep == loss_pending /\ ~loss_pending' /\ pr_last'.op = "update" /\ pr_last'.status = "ok"

\* The j-th timestep of the batch handed out by the preceding retrieve is
\* in slot i of the priority memory after the step, with the priority made
\* of the j-th loss.
PromotedTo(j, i) ==
    /\ states_memory'[i] = pr_batch.states[j]
    /\ internals_memory'[i] = pr_batch.internals[j]
    /\ actions_memory'[i] = pr_batch.actions[j]
    /\ terminal_memory'[i] = pr_batch.terminal[j]
    /\ reward_memory'[i] = pr_batch.reward[j]
    /\ priorities'[i] = Power(pr_last'.input[j], prioritization_weight)

\* C12: tf_update_batch moves the elements that the preceding
\* tf_retrieve_timesteps took from the buffer (the first
\* last_batch_buffer_elems timesteps of its batch) into the priority memory:
\* afterwards each is in a priority memory slot with all its fields and with
\* priority loss ** prioritization_weight of its own batch instance, and
\* buffer_index has decreased by the number of moved elements.
C12_UpdateStep ==
    UpdateStep =>
        /\ buffer_index' = buffer_index - last_batch_buffer_elems
        /\ \A j \in 1 .. last_batch_buffer_elems :
              /\ j <= Len(pr_batch.states)
              /\ \E i \in 0 .. pr_capacity - 1 : PromotedTo(j, i)
C12_UpdateBatchPromotes == [][C12_UpdateStep]_vars

\* =====================================================================
\* Claims about Replay.get_batch (SpecReplay)
\* =====================================================================
\* get_batch has returned a batch in sequential mode.
SequentialBatch == rp_last.op = "batch" /\ ~random_sampling

\* C13: in sequential mode (random_sampling = False) get_batch only returns
\* a batch in which no position except possibly the last has its terminal
\* flag set.
C13_NoIntermediateTerminal ==
    SequentialBatch =>
        \A k \in 1 .. (Len(rp_last.batch.terminals) - 1) : ~rp_last.batch.terminals[k]

\* A sequential batch of at least two timesteps was returned from a memory
\* that holds a terminal the batch had to keep out of its intermediate
\* positions: the batch ends on it.
C13_Witness ==
    /\ SequentialBatch
    /\ Len(rp_last.batch.terminals) >= 2
    /\ rp_last.batch.terminals[Len(rp_last.batch.terminals)]
    /\ \E i \in Slots : terminals[i] /\ i # rp_last.indices[Len(rp_last.indices)]

\* _sample_sequential_indices has returned indices to get_batch.
SequentialSample == rp_last.op \in {"sampling", "batch"} /\ ~random_sampling

\* C16: on a memory filled by add_observation, for 1 <= batch_size <= size,
\* _sample_sequential_indices returns exactly batch_size indices that are
\* consecutive modulo capacity, refer to populated slots, and are in the
\* order the observations were added (rewards number the observations in
\* the order of their add_observation calls), so the window never runs
\* from the newest observation to the oldest one.
C16_SequentialWindow ==
    SequentialSample =>
        LET ix == rp_last.indices
        IN /\ Len(ix) = rp_last.batch_size
           /\ \A k \in 1 .. Len(ix) :
                 /\ ix[k] \in Slots
                 /\ ix[k] < size
                 /\ rewards[ix[k]] >= 1
           /\ \A k \in 1 .. (Len(ix) - 1) :
                 /\ ix[k + 1] = (ix[k] + 1) % capacity
                 /\ rewards[ix[k + 1]] = rewards[ix[k]] + 1

\* A window of at least two indices was drawn from a memory that has
\* wrapped around, and the window itself wraps from the last slot to slot 0.
C16_Witness ==
    /\ SequentialSample
    /\ NumAdded > capacity
    /\ \E k \in 1 .. (Len(rp_last.indices) - 1) :
          rp_last.indices[k] = capacity - 1 /\ rp_last.indices[k + 1] = 0

\* =====================================================================
\* Claims about QNAFModel (SpecQNAF)
\* =====================================================================
\* A float action without bounds.
UnconstrainedFloat(action) == action["type"] = "float" /\ DOMAIN action = {"type"}

\* C14: constructing a QNAFModel is rejected with a TensorForceError, before
\* the parent model constructor runs, whenever any action has a type other
\* than 'float' or carries a 'min_value' or 'max_value'; only unconstrained
\* float actions are accepted.
C14_OnlyUnconstrainedFloat ==
    naf_status # "new" =>
        IF \A n \in DOMAIN actions_spec : UnconstrainedFloat(actions_spec[n])
        THEN naf_status = "constructed" /\ qmodel_initialized
        ELSE naf_status = "TensorForceError" /\ ~qmodel_initialized

\* A model was rejected whose first action is an unconstrained float and
\* whose second action is a float with an upper bound only.
C14_Witness ==
    /\ naf_status = "TensorForceError"
    /\ Len(actions_spec) = 2
    /\ UnconstrainedFloat(actions_spec[1])
    /\ actions_spec[2]["type"] = "float"
    /\ DOMAIN actions_spec[2] = {"type", "max_value"}

\* =====================================================================
\* Claims about Model (SpecModel)
\* =====================================================================
\* timestep > last_summary_step + summary_interval, with summaries enabled.
SummaryDue ==
    /\ summaries_enabled
    /\ \/ last_summary_step.kind = "-inf"
       \/ /\ last_summary_step.kind = "int"
          /\ model_timestep > last_summary_step.value + summary_interval

\* The timesteps of the summaries written by update, in the order written.
IsUpdateSummary(entry) == entry[1] = "update"
UpdateSummaries == SelectSeq(summary_log, IsUpdateSummary)

\* Any two summaries written by update are more than summary_interval
\* get_action calls apart.
SummariesApart ==
    \A i, j \in 1 .. Len(UpdateSummaries) :
        i < j => UpdateSummaries[j][2] - UpdateSummaries[i][2] > summary_interval

\* The steps of update and get_action, as the statement has them: update
\* fetches and writes exactly when the summary is due and then sets
\* last_summary_step to timestep, it leaves timestep alone, and get_action
\* adds 1 to timestep.
C15_Step ==
    /\ model_last'.op = "update" =>
          /\ summaries_enabled =>
                ((model_last'.fetched /\ model_last'.wrote) <=> SummaryDue)
          /\ last_summary_step' = IF SummaryDue THEN Step(model_timestep)
                                  ELSE last_summary_step
          /\ model_timestep' = model_timestep
    /\ model_last'.op = "get_action" => model_timestep' = model_timestep + 1

C15_State ==
    /\ (summaries_enabled /\ model_last.op = "update" /\ model_last.first)
          => model_last.wrote
    /\ SummariesApart
    /\ ~summaries_enabled => summary_log = <<>>

\* C15 as stated: with summaries enabled, update fetches and writes
\* summaries exactly when timestep > last_summary_step + summary_interval
\* and then sets last_summary_step to timestep; the first update always
\* writes, two summary writes of update are more than summary_interval
\* get_action calls apart, and with summaries disabled no summary is ever
\* written.
C15_SummarySchedule == []C15_State /\ [][C15_Step]_vars

\* The model can write: it has a session, and a summary writer or a
\* supervisor.
CanWrite == session /\ (summary_writer \/ supervisor)

C15_AmendedStep ==
    /\ model_last'.op = "update" =>
          /\ model_last'.fetched <=> (SummaryDue /\ session)
          /\ model_last'.wrote <=> (SummaryDue /\ CanWrite)
          /\ last_summary_step' = IF SummaryDue THEN Step(model_timestep)
                                  ELSE last_summary_step
          /\ model_timestep' = model_timestep
    /\ model_last'.op = "get_action" => model_timestep' = model_timestep + 1

C15_AmendedState ==
    /\ (summaries_enabled /\ CanWrite /\ model_last.op = "update" /\ model_last.first)
          => model_last.wrote
    /\ SummariesApart
    /\ ~summaries_enabled => summary_log = <<>>

\* C15 amended: update marks a summary as due exactly when summaries are
\* enabled and timestep > last_summary_step + summary_interval, and then sets
\* last_summary_step to timestep; it fetches the summaries only if the model
\* has a session, and writes them only if the model also has a summary
\* writer (a model that is not distributed) or a supervisor (given to
\* set_session). Under that condition the first update writes; two summary
\* writes of update are more than summary_interval get_action calls apart;
\* with summaries disabled no summary is ever written.
C15_SummaryScheduleIfWriter == []C15_AmendedState /\ [][C15_AmendedStep]_vars

\* update has written two summaries with a positive interval between them,
\* and the last update wrote none because the interval had not passed.
C15_Witness ==
    /\ summaries_enabled /\ CanWrite /\ summary_interval >= 1
    /\ Len(UpdateSummaries) >= 2
    /\ model_last.op = "update" /\ ~model_last.fetched
    /\ model_timestep > last_summary_step.value

\* Every buffer field has room for buffer_size entries.
BuffersHaveRoom ==
    /\ \A i \in 0 .. buffer_size - 1 :
          /\ i \in DOMAIN states_buffer
          /\ i \in DOMAIN internals_buffer
          /\ i \in DOMAIN actions_buffer
          /\ i \in DOMAIN terminal_buffer
          /\ i \in DOMAIN reward_buffer

\* A step leaves every buffer position from buffer_size on as it was.
BeyondBufferUnchanged ==
    /\ \A i \in DOMAIN states_buffer : i >= buffer_size => states_buffer'[i] = states_buffer[i]
    /\ \A i \in DOMAIN internals_buffer :
          i >= buffer_size => internals_buffer'[i] = internals_buffer[i]
    /\ \A i \in DOMAIN actions_buffer : i >= buffer_size => actions_buffer'[i] = actions_buffer[i]
    /\ \A i \in DOMAIN terminal_buffer :
          i >= buffer_size => terminal_buffer'[i] = terminal_buffer[i]
    /\ \A i \in DOMAIN reward_buffer : i >= buffer_size => reward_buffer'[i] = reward_buffer[i]

C17_IndexInBuffer == 0 <= buffer_index /\ buffer_index <= buffer_size /\ BuffersHaveRoom
C17_StoreStep == stored' # stored => BeyondBufferUnchanged

\* C17: after any sequence of tf_store, tf_retrieve_timesteps and
\* tf_update_batch calls 0 <= buffer_index <= buffer_size holds, every
\* buffer field has room for buffer_size entries, and tf_store never writes
\* a position outside 0 .. buffer_size - 1 of a buffer field.
C17_BufferIndexBounds == []C17_IndexInBuffer /\ [][C17_StoreStep]_vars

\* The priority memory slots that hold a promoted experience (experiences
\* are numbered from 1 by their reward; a slot never written holds 0).
PromotedSlots == {i \in 0 .. pr_capacity - 1 : reward_memory[i] >= 1}

\* Slot i holds after the step what it held before, priority included.
SlotKept(i) ==
    /\ states_memory'[i] = states_memory[i]
    /\ actions_memory'[i] = actions_memory[i]
    /\ terminal_memory'[i] = terminal_memory[i]
    /\ reward_memory'[i] = reward_memory[i]
    /\ priorities'[i] = priorities[i]

\* C18: successive promotions do not overwrite each other: a
\* tf_update_batch that moves k > 0 experiences advances memory_index by k,
\* and while the priority memory still has k slots that hold no promoted
\* experience it leaves every promoted experience and its priority in place.
C18_UpdateStep ==
    (UpdateStep /\ last_batch_buffer_elems > 0) =>
        /\ memory_index' = (memory_index + last_batch_buffer_elems) % pr_capacity
        /\ Cardinality(PromotedSlots) + last_batch_buffer_elems <= pr_capacity
              => \A i \in PromotedSlots : SlotKept(i)
C18_PromotionsDistinct == [][C18_UpdateStep]_vars

\* =====================================================================
\* Specifications
\* =====================================================================
InitSpecReplay == InitReplay /\ IdleBatchAgent /\ IdleMemoryAgent /\ IdleDQFD /\ IdlePrioritized /\ IdleQNAF /\ IdleModel
SpecReplay == InitSpecReplay /\ [][NextReplay]_vars

InitSpecBatchAgent == IdleReplay /\ InitBatchAgent /\ IdleMemoryAgent /\ IdleDQFD /\ IdlePrioritized /\ IdleQNAF /\ IdleModel
SpecBatchAgent == InitSpecBatchAgent /\ [][NextBatchAgent]_vars

InitSpecMemoryAgent == IdleReplay /\ IdleBatchAgent /\ InitMemoryAgent /\ IdleDQFD /\ IdlePrioritized /\ IdleQNAF /\ IdleModel
SpecMemoryAgent == InitSpecMemoryAgent /\ [][NextMemoryAgent]_vars

InitSpecDQFD == IdleReplay /\ IdleBatchAgent /\ IdleMemoryAgent /\ InitDQFD /\ IdlePrioritized /\ IdleQNAF /\ IdleModel
SpecDQFD == InitSpecDQFD /\ [][NextDQFD]_vars

InitSpecPrioritized ==
    IdleReplay /\ IdleBatchAgent /\ IdleMemoryAgent /\ IdleDQFD /\ InitPrioritized
        /\ IdleQNAF /\ IdleModel
NextPrioritized == PrioStore \/ PrioRetrieve \/ PrioUpdateBatch
SpecPrioritized == InitSpecPrioritized /\ [][NextPrioritized]_vars


InitSpecQNAF ==
    IdleReplay /\ IdleBatchAgent /\ IdleMemoryAgent /\ IdleDQFD /\ IdlePrioritized
        /\ InitQNAF /\ IdleModel
SpecQNAF == InitSpecQNAF /\ [][NextQNAF]_vars

InitSpecModel ==
    IdleReplay /\ IdleBatchAgent /\ IdleMemoryAgent /\ IdleDQFD /\ IdlePrioritized
        /\ IdleQNAF /\ InitModel
SpecModel == InitSpecModel /\ [][NextModel]_vars
====
